---- MODULE Spec2Model ----
(***************************************************************************)
(* jwt_tool: the custom-token pipeline of main.go (main, checkConfig,      *)
(* createToken, getJwkSet, verifyToken, generateJTI) and of the later      *)
(* revision of the same pipeline kept in README.md (handleCustomToken,     *)
(* checkCustomConfig).  Library calls (golang-jwt/v5, jwx/jwk, crypto,     *)
(* encoding/json, net/http, os) are modelled by what they do to the values *)
(* the program hands them.                                                 *)
(***************************************************************************)
EXTENDS Integers, Sequences, FiniteSets, TLC

(***************************************************************************)
(* Bounds of the model.                                                    *)
(***************************************************************************)
MaxKeys == 2
MaxElapsed == 1
NumRand == 2
NumKeyPairs == 2
MaxCalls == 2
Now0 == 1700000000

(***************************************************************************)
(* Program constants.                                                      *)
(***************************************************************************)
Day == 24 * 60 * 60
JTIBytes == 16

(***************************************************************************)
(* Go strings that travel as data are sequences of character codes.        *)
(***************************************************************************)
EmptyStr == << >>
StrX == << 120 >>
Kid1 == << 107, 49 >>
Kid2 == << 107, 50 >>

(***************************************************************************)
(* Go values held in a jwt.MapClaims (map[string]interface{}).  A key that *)
(* is not in the map reads as Absent; a key holding JSON null reads as     *)
(* NilVal.  Both compare equal to nil in `m[k] == nil`.                    *)
(***************************************************************************)
GoVal(t, n, s) == [t |-> t, n |-> n, s |-> s]
Absent == GoVal("absent", 0, EmptyStr)
NilVal == GoVal("nil", 0, EmptyStr)
Str(s) == GoVal("string", 0, s)
F64(n) == GoVal("float64", n, EmptyStr)
I64(n) == GoVal("int64", n, EmptyStr)

IsNil(v) == v.t \in {"absent", "nil"}
Present(v) == v.t # "absent"

ClaimNames == {"iss", "aud", "sub", "client_id", "azp", "exp", "iat", "jti", "nbf", "scope"}
NoClaims == [k \in ClaimNames |-> Absent]

(***************************************************************************)
(* *string                                                                 *)
(***************************************************************************)
NilPtr == [nil |-> TRUE, s |-> EmptyStr]
Ptr(s) == [nil |-> FALSE, s |-> s]

(***************************************************************************)
(* encoding/json: Marshal maps every Go number to a JSON number and drops  *)
(* absent keys; Unmarshal into interface{} yields float64 for every        *)
(* number.                                                                 *)
(***************************************************************************)
Marshal(v) ==
    CASE v.t \in {"int64", "float64"} -> GoVal("number", v.n, EmptyStr)
      [] v.t = "string" -> GoVal("string", 0, v.s)
      [] v.t = "nil" -> GoVal("null", 0, EmptyStr)
      [] OTHER -> Absent

Unmarshal(j) ==
    CASE j.t = "number" -> F64(j.n)
      [] j.t = "string" -> Str(j.s)
      [] j.t = "null" -> NilVal
      [] OTHER -> Absent

MarshalClaims(c) == [k \in ClaimNames |-> Marshal(c[k])]
UnmarshalClaims(p) == [k \in ClaimNames |-> Unmarshal(p[k])]

(***************************************************************************)
(* encoding/base64 URLEncoding (padded) over a byte sequence.              *)
(***************************************************************************)
B64Pad == 61

B64Char(s) ==
    IF s < 26 THEN 65 + s
    ELSE IF s < 52 THEN 97 + (s - 26)
    ELSE IF s < 62 THEN 48 + (s - 52)
    ELSE IF s = 62 THEN 45 ELSE 95

RECURSIVE EncodeToString(_)
EncodeToString(b) ==
    IF Len(b) = 0 THEN << >>
    ELSE IF Len(b) = 1 THEN
        << B64Char(b[1] \div 4), B64Char((b[1] % 4) * 16), B64Pad, B64Pad >>
    ELSE IF Len(b) = 2 THEN
        << B64Char(b[1] \div 4), B64Char((b[1] % 4) * 16 + (b[2] \div 16)),
           B64Char((b[2] % 16) * 4), B64Pad >>
    ELSE
        << B64Char(b[1] \div 4), B64Char((b[1] % 4) * 16 + (b[2] \div 16)),
           B64Char((b[2] % 16) * 4 + (b[3] \div 64)), B64Char(b[3] % 64) >>
        \o EncodeToString(SubSeq(b, 4, Len(b)))

(***************************************************************************)
(* crypto/rand: the outcomes of one rand.Read(b) the model lets happen.    *)
(* Outcome 0 is the read failing; outcome r > 0 fills b with a pattern.    *)
(***************************************************************************)
RandOutcomes == 0 .. NumRand
RandBytes(r) == [i \in 1 .. JTIBytes |-> (r * 37 + i * 11) % 256]

generateJTI(r) ==
    IF r = 0 THEN [jti |-> EmptyStr, err |-> "rand.Read"]
    ELSE [jti |-> EncodeToString(RandBytes(r)), err |-> ""]

(***************************************************************************)
(* RSA key pairs are numbered; pair n has private half n and public half   *)
(* n.  A key is a record of its Go type and its number.                    *)
(***************************************************************************)
KeyPairs == 1 .. NumKeyPairs
NoKey == [type |-> "", n |-> 0]
RSAPublicKey(n) == [type |-> "*rsa.PublicKey", n |-> n]
Bytes(n) == [type |-> "[]byte", n |-> n]

(***************************************************************************)
(* Signatures.  An RSASSA-PKCS1-v1_5 signature records the private half,   *)
(* the hash and the signing input; an HMAC records the secret.             *)
(***************************************************************************)
NoSig == [scheme |-> "", hash |-> "", key |-> NoKey, over |-> << >>]
SignPKCS1v15(n, hash, input) ==
    [scheme |-> "PKCS1v15", hash |-> hash, key |-> RSAPublicKey(n), over |-> input]
SignPSS(n, hash, input) ==
    [scheme |-> "PSS", hash |-> hash, key |-> RSAPublicKey(n), over |-> input]
HMACSum(secret, hash, input) ==
    [scheme |-> "HMAC", hash |-> hash, key |-> secret, over |-> input]

(***************************************************************************)
(* golang-jwt: the registered signing methods, by Go type.                 *)
(***************************************************************************)
Algs == {"RS256", "RS384", "PS256", "HS256", "ES256", "none", "XX"}

MethodOf(alg) ==
    CASE alg \in {"RS256", "RS384", "RS512"} -> "*SigningMethodRSA"
      [] alg \in {"PS256", "PS384", "PS512"} -> "*SigningMethodRSAPSS"
      [] alg \in {"HS256", "HS384", "HS512"} -> "*SigningMethodHMAC"
      [] alg \in {"ES256", "ES384", "ES512"} -> "*SigningMethodECDSA"
      [] alg = "none" -> "*signingMethodNone"
      [] OTHER -> ""

HashOf(alg) ==
    CASE alg \in {"RS256", "PS256", "HS256", "ES256"} -> "SHA256"
      [] alg \in {"RS384", "PS384", "HS384", "ES384"} -> "SHA384"
      [] alg \in {"RS512", "PS512", "HS512", "ES512"} -> "SHA512"
      [] OTHER -> ""

(* token.Method.Verify(signingString, sig, key): "" or the error. *)
MethodVerify(alg, input, sig, key) ==
    CASE MethodOf(alg) = "*SigningMethodRSA" ->
            IF key.type # "*rsa.PublicKey" THEN "key is of invalid type"
            ELSE IF sig = SignPKCS1v15(key.n, HashOf(alg), input) THEN ""
            ELSE "crypto/rsa: verification error"
      [] MethodOf(alg) = "*SigningMethodRSAPSS" ->
            IF key.type # "*rsa.PublicKey" THEN "key is of invalid type"
            ELSE IF sig = SignPSS(key.n, HashOf(alg), input) THEN ""
            ELSE "crypto/rsa: verification error"
      [] MethodOf(alg) = "*SigningMethodHMAC" ->
            IF key.type # "[]byte" THEN "key is of invalid type"
            ELSE IF sig = HMACSum(key, HashOf(alg), input) THEN ""
            ELSE "signature is invalid"
      [] MethodOf(alg) = "*signingMethodNone" -> "'none' signature type is not allowed"
      [] OTHER -> "key is of invalid type"

(***************************************************************************)
(* A compact token string: parts is the number of dot-separated segments;  *)
(* the segments are the JSON they decode to.  The empty string has none.   *)
(***************************************************************************)
HeaderJSON(alg, hasKid, kid) == [alg |-> alg, typ |-> "JWT", hasKid |-> hasKid, kid |-> kid]
NoHeader == HeaderJSON("", FALSE, EmptyStr)
TokenString(h, p, sig) == [parts |-> 3, header |-> h, payload |-> p, sig |-> sig]
EmptyTokenString == [parts |-> 0, header |-> NoHeader, payload |-> NoClaims, sig |-> NoSig]
SigningString(h, p) == << h, p >>

(* *jwt.Token *)
NilToken == [nil |-> TRUE, header |-> NoHeader, claims |-> NoClaims, valid |-> FALSE]
Token(h, c, valid) == [nil |-> FALSE, header |-> h, claims |-> c, valid |-> valid]

(***************************************************************************)
(* PEM blocks and DER public keys.  enc is the DER structure: "PKCS1"      *)
(* (RSAPublicKey), "PKIX" (SubjectPublicKeyInfo) or "CERT".                *)
(***************************************************************************)
NoDER == [enc |-> "", kty |-> "", n |-> 0]
NotPEM == [block |-> FALSE, type |-> "", der |-> NoDER]
MarshalPKCS1PublicKey(n) == [enc |-> "PKCS1", kty |-> "RSA", n |-> n]
EncodeToMemory(type, der) == [block |-> TRUE, type |-> type, der |-> der]

(* jwt.ParseRSAPublicKeyFromPEM: pem.Decode, then ParsePKIXPublicKey, else  *)
(* ParseCertificate, else ParsePKCS1PublicKey; the block type is not read. *)
ParseRSAPublicKeyFromPEM(pem) ==
    IF ~pem.block THEN [key |-> NoKey, err |-> "invalid key: key must be a PEM encoded PKCS1 or PKCS8 key"]
    ELSE IF pem.der.enc \in {"PKIX", "CERT"} THEN
        IF pem.der.kty = "RSA" THEN [key |-> RSAPublicKey(pem.der.n), err |-> ""]
        ELSE [key |-> NoKey, err |-> "key is not a valid RSA public key"]
    ELSE IF pem.der.enc = "PKCS1" THEN [key |-> RSAPublicKey(pem.der.n), err |-> ""]
    ELSE [key |-> NoKey, err |-> "asn1: structure error"]

(***************************************************************************)
(* jwt.Parse with the default validator (no parser options): exp and nbf   *)
(* are checked when present, iat is not.  A numeric date of 0 reads as     *)
(* unset; a value that is not a JSON number is a type error.               *)
(***************************************************************************)
VerifyExpiresAt(c, t) ==
    IF ~Present(c["exp"]) THEN ""
    ELSE IF c["exp"].t # "float64" THEN "exp is invalid"
    ELSE IF c["exp"].n = 0 \/ t < c["exp"].n THEN ""
    ELSE "token is expired"

VerifyNotBefore(c, t) ==
    IF ~Present(c["nbf"]) THEN ""
    ELSE IF c["nbf"].t # "float64" THEN "nbf is invalid"
    ELSE IF c["nbf"].n = 0 \/ t >= c["nbf"].n THEN ""
    ELSE "token is not valid yet"

ValidateClaimsSkippingExp(c, t) == VerifyNotBefore(c, t)
ValidateClaims(c, t) ==
    IF VerifyExpiresAt(c, t) # "" THEN VerifyExpiresAt(c, t)
    ELSE VerifyNotBefore(c, t)

(* The key function verifyToken hands to jwt.Parse. *)
KeyFuncAnyMethod(alg, parsedPublicKey) == [key |-> parsedPublicKey, err |-> ""]
KeyFuncInverted(alg, parsedPublicKey) ==
    IF MethodOf(alg) = "*SigningMethodRSA"
    THEN [key |-> NoKey, err |-> "unexpected signing method"]
    ELSE [key |-> parsedPublicKey, err |-> ""]
KeyFunc(alg, parsedPublicKey) ==
    IF MethodOf(alg) # "*SigningMethodRSA"
    THEN [key |-> NoKey, err |-> "unexpected signing method"]
    ELSE [key |-> parsedPublicKey, err |-> ""]

jwtParse(tokenString, parsedPublicKey, t) ==
    IF tokenString.parts # 3 THEN [token |-> NilToken, err |-> "token is malformed"]
    ELSE LET h == tokenString.header
             c == UnmarshalClaims(tokenString.payload)
             kf == KeyFunc(h.alg, parsedPublicKey)
             unverified == Token(h, c, FALSE)
         IN IF MethodOf(h.alg) = "" THEN
                [token |-> unverified, err |-> "signing method (alg) is unavailable"]
            ELSE IF kf.err # "" THEN
                [token |-> unverified, err |-> "error while executing keyfunc"]
            ELSE IF MethodVerify(h.alg, SigningString(h, tokenString.payload),
                                 tokenString.sig, kf.key) # "" THEN
                [token |-> unverified, err |-> "signature is invalid"]
            ELSE IF ValidateClaims(c, t) # "" THEN
                [token |-> unverified, err |-> ValidateClaims(c, t)]
            ELSE [token |-> Token(h, c, TRUE), err |-> ""]

verifyToken(tokenString, publicKey, t) ==
    LET parsed == ParseRSAPublicKeyFromPEM(publicKey)
        r == jwtParse(tokenString, parsed.key, t)
    IN IF parsed.err # "" THEN [token |-> NilToken, err |-> parsed.err]
       ELSE IF r.err # "" THEN [token |-> NilToken, err |-> r.err]
       ELSE [token |-> r.token, err |-> ""]

(***************************************************************************)
(* JWK documents.  json is "invalid" (not JSON), "other" (JSON that is no  *)
(* key set) or "jwks"; keys is the ordered key list of a "jwks" document.  *)
(***************************************************************************)
JWK(kid, kty, n) == [kid |-> kid, kty |-> kty, n |-> n]
NoJWK == JWK(EmptyStr, "", 0)
Doc(json, keys) == [json |-> json, keys |-> keys]

LookupKeyID(keys, kid) ==
    IF \E i \in 1 .. Len(keys) : keys[i].kid = kid
    THEN [key |-> keys[CHOOSE i \in 1 .. Len(keys) :
                        /\ keys[i].kid = kid
                        /\ \A j \in 1 .. (i - 1) : keys[j].kid # kid], ok |-> TRUE]
    ELSE [key |-> NoJWK, ok |-> FALSE]

Get0(keys) == IF Len(keys) > 0 THEN [key |-> keys[1], ok |-> TRUE] ELSE [key |-> NoJWK, ok |-> FALSE]

(* Lines 118-134: the key getJwkSet picks, whether it warned, and the error. *)
SelectFirstOnly(keys, KID) == [key |-> Get0(keys).key, ok |-> Get0(keys).ok, warned |-> FALSE]
SelectKey(keys, KID) ==
    IF ~KID.nil THEN
        IF LookupKeyID(keys, KID.s).ok
        THEN [key |-> LookupKeyID(keys, KID.s).key, ok |-> TRUE, warned |-> FALSE]
        ELSE [key |-> Get0(keys).key, ok |-> Get0(keys).ok, warned |-> TRUE]
    ELSE [key |-> Get0(keys).key, ok |-> Get0(keys).ok, warned |-> FALSE]

(* Lines 84-104: where the document comes from, and the I/O it takes. *)
FetchJWKEndpointFirst(params, w) ==
    IF params.WellKnownEndpoint = "" /\ params.JWKFile # "" THEN
        [io |-> << "os.ReadFile(JWKFile)" >>,
         err |-> IF w.jwkFile.readable THEN "" ELSE "open: no such file or directory",
         doc |-> w.jwkFile.doc]
    ELSE IF params.WellKnownEndpoint = "" \/ ~w.endpoint.up THEN
        [io |-> << "http.Get" >>, err |-> "Get: transport error", doc |-> w.endpoint.doc]
    ELSE
        [io |-> << "http.Get", "response", "io.ReadAll(Body)" >>,
         err |-> IF w.endpoint.bodyOk THEN "" ELSE "unexpected EOF", doc |-> w.endpoint.doc]
FetchJWK(params, w) ==
    IF params.JWKFile # "" THEN
        [io |-> << "os.ReadFile(JWKFile)" >>,
         err |-> IF w.jwkFile.readable THEN "" ELSE "open: no such file or directory",
         doc |-> w.jwkFile.doc]
    ELSE IF params.WellKnownEndpoint = "" \/ ~w.endpoint.up THEN
        [io |-> << "http.Get" >>, err |-> "Get: transport error", doc |-> w.endpoint.doc]
    ELSE IF ~w.endpoint.bodyOk THEN
        [io |-> << "http.Get", "response", "io.ReadAll(Body)" >>,
         err |-> "unexpected EOF", doc |-> w.endpoint.doc]
    ELSE
        [io |-> << "http.Get", "response", "io.ReadAll(Body)" >>,
         err |-> "", doc |-> w.endpoint.doc]

NoResolve == [pem |-> NotPEM, err |-> "", io |-> << >>, out |-> << >>, key |-> NoJWK, warned |-> FALSE]

getJwkSet(params, w) ==
    LET f == FetchJWK(params, w)
        dbg == IF params.Debug /\ f.doc.json # "invalid" THEN << "DEBUG JWK RESPONSE" >> ELSE << >>
        sel == SelectKey(f.doc.keys, params.KID)
        warn == IF sel.warned THEN << "Could not find key with kid" >> ELSE << >>
        fail(e, o, wn) == [pem |-> NotPEM, err |-> e, io |-> f.io, out |-> o, key |-> NoJWK,
                          warned |-> wn]
    IN IF f.err # "" THEN fail(f.err, << >>, FALSE)
       ELSE IF params.Debug /\ f.doc.json = "invalid" THEN
            fail("json.Indent: invalid character", << >>, FALSE)
       ELSE IF f.doc.json # "jwks" THEN fail("failed to unmarshal JWK set", dbg, FALSE)
       ELSE IF ~sel.ok THEN
            fail("There was trouble finding a key from the JWK set", dbg \o warn, sel.warned)
       ELSE IF sel.key.kty # "RSA" THEN
            fail("failed to assign key to *rsa.PublicKey", dbg \o warn, sel.warned)
       ELSE [pem |-> EncodeToMemory("PUBLIC KEY", MarshalPKCS1PublicKey(sel.key.n)),
             err |-> "", io |-> f.io, out |-> dbg \o warn, key |-> sel.key,
             warned |-> sel.warned]

(***************************************************************************)
(* Configuration.  One record holds what main.go takes from the config     *)
(* file and the flags, and what the README revision takes from             *)
(* Config.Custom: the claims, the header kid, the well-known endpoint and  *)
(* the private-key path (string pointers), the local JWK file and debug.   *)
(***************************************************************************)
NilStr == [nil |-> TRUE, s |-> ""]
PStr(s) == [nil |-> FALSE, s |-> s]

Config(c, kid, wk, pk, jwkFile, debug) ==
    [nil |-> FALSE, claims |-> c, kid |-> kid, wk |-> wk, pk |-> pk,
     jwkFile |-> jwkFile, debug |-> debug]
NilConfig ==
    [nil |-> TRUE, claims |-> NoClaims, kid |-> NilPtr, wk |-> NilStr, pk |-> NilStr,
     jwkFile |-> "", debug |-> FALSE]

(* main.go checkConfig, lines 252-266: the checks on the parsed file. *)
checkConfigFields(c) ==
    IF IsNil(c.claims["iss"]) THEN "iss claim is required in your config json file"
    ELSE IF IsNil(c.claims["aud"]) THEN "aud claim is required in your config json file"
    ELSE IF IsNil(c.claims["sub"]) THEN "sub claim is required in your config json file"
    ELSE IF IsNil(c.claims["client_id"]) THEN "client_id claim is required in your config json file"
    ELSE IF c.wk.nil THEN "wk_path claim is required in your config json file"
    ELSE ""

(* main.go checkConfig, lines 236-269: file is the config file's state. *)
checkConfig(file) ==
    IF ~file.readable THEN [config |-> NilConfig, err |-> "open: no such file or directory"]
    ELSE IF ~file.json THEN [config |-> NilConfig, err |-> "invalid character"]
    ELSE IF checkConfigFields(file.content) # ""
         THEN [config |-> NilConfig, err |-> checkConfigFields(file.content)]
    ELSE [config |-> file.content, err |-> ""]

(* README.md checkCustomConfig, lines 600-624. *)
checkCustomConfig(c) ==
    IF c.pk.nil THEN "iss claim is required in your config json file"
    ELSE IF IsNil(c.claims["iss"]) THEN "iss claim is required in your config json file"
    ELSE IF IsNil(c.claims["aud"]) THEN "aud claim is required in your config json file"
    ELSE IF IsNil(c.claims["sub"]) THEN "sub claim is required in your config json file"
    ELSE IF IsNil(c.claims["client_id"]) THEN "client_id claim is required in your config json file"
    ELSE IF c.wk.nil THEN "wk_path claim is required in your config json file"
    ELSE ""

(***************************************************************************)
(* The world outside the process: the config file, the private-key file,   *)
(* the local JWK file and the server behind the well-known endpoint.       *)
(***************************************************************************)
ConfigFile(readable, json, content) == [readable |-> readable, json |-> json, content |-> content]
KeyFile(readable, pem, n, weak) == [readable |-> readable, pem |-> pem, n |-> n, weak |-> weak]
JWKFile(readable, doc) == [readable |-> readable, doc |-> doc]
Endpoint(up, status, bodyOk, doc) == [up |-> up, status |-> status, bodyOk |-> bodyOk, doc |-> doc]
World(cf, kf, jf, ep) == [configFile |-> cf, keyFile |-> kf, jwkFile |-> jf, endpoint |-> ep]

NoErr == [at |-> "", why |-> ""]
Err(at, why) == [at |-> at, why |-> why]
NoPrivateKey == [nil |-> TRUE, n |-> 0, weak |-> FALSE]

VARIABLES
    pc,            \* where the invocation stands
    entry,         \* the operation that was invoked
    world,         \* files and endpoint
    config,        \* *Config of main / params of the operation
    claims,        \* params.Claims, the map createToken writes to
    now,           \* wall clock, Unix seconds
    privateKey,    \* parsed private key
    tokenString,   \* result of SignedString
    resolved,      \* result of getJwkSet
    verifiedToken, \* result of verifyToken
    ret,           \* what the operation returned: token string and error
    out,           \* what was printed
    io,            \* file and network operations performed, in order
    stages,        \* pipeline stages started, in order
    calls,         \* createToken invocations so far
    jtis           \* jti values generated so far, one per invocation that drew one

vars == << pc, entry, world, config, claims, now, privateKey, tokenString, resolved,
           verifiedToken, ret, out, io, stages, calls, jtis >>

publicKey == resolved.pem

(***************************************************************************)
(* createToken, lines 174-188: the claim defaults.  t1 and t2 are the two  *)
(* clock reads, jti the generated identifier.                              *)
(***************************************************************************)
ApplyDefaultsOverwriting(c, t1, t2, jti) ==
    [c EXCEPT !["exp"] = I64(t1 + Day), !["iat"] = I64(t2), !["jti"] = Str(jti)]
ApplyDefaultsNoExpiry(c, t1, t2, jti) ==
    [c EXCEPT !["exp"] = IF IsNil(c["exp"]) THEN I64(t1) ELSE @,
              !["iat"] = IF IsNil(c["iat"]) THEN I64(t2) ELSE @,
              !["jti"] = IF IsNil(c["jti"]) THEN Str(jti) ELSE @]
ApplyDefaults(c, t1, t2, jti) ==
    [c EXCEPT !["exp"] = IF IsNil(c["exp"]) THEN I64(t1 + Day) ELSE @,
              !["iat"] = IF IsNil(c["iat"]) THEN I64(t2) ELSE @,
              !["jti"] = IF IsNil(c["jti"]) THEN Str(jti) ELSE @]

(* createToken, lines 200-203: the header of the new token. *)
NewHeader(kid) == HeaderJSON("RS256", ~kid.nil, kid.s)

(* token.SignedString(privateKey), line 205. *)
SignedString(h, c, key) ==
    IF key.weak
    THEN [str |-> EmptyTokenString, err |-> "crypto/rsa: message too long for RSA key size"]
    ELSE [str |-> TokenString(h, MarshalClaims(c),
                              SignPKCS1v15(key.n, HashOf(h.alg),
                                           SigningString(h, MarshalClaims(c)))),
          err |-> ""]

GetJWKSetParams(c) ==
    [WellKnownEndpoint |-> c.wk.s, JWKFile |-> c.jwkFile, KID |-> c.kid, Debug |-> c.debug]

Returns(tok, err) ==
    /\ ret' = [tok |-> tok, err |-> err]
    /\ pc' = "ct_ret"

(***************************************************************************)
(* createToken, step by step.                                              *)
(***************************************************************************)
CreateTokenDefaults ==
    /\ pc = "ct_defaults"
    /\ \E d \in 0 .. MaxElapsed, r \in RandOutcomes :
         LET needJti == IsNil(claims["jti"])
             t1 == now
             t2 == IF IsNil(claims["iat"]) THEN now + d ELSE now
             j == generateJTI(r)
         IN /\ ~IsNil(claims["iat"]) => d = 0
            /\ ~needJti => r = 1
            /\ now' = t2
            /\ stages' = Append(stages, "Sign")
            /\ IF needJti /\ j.err # ""
               THEN /\ claims' = [ApplyDefaults(claims, t1, t2, j.jti) EXCEPT !["jti"] = claims["jti"]]
                    /\ jtis' = jtis
                    /\ Returns(EmptyTokenString, Err("createToken:generateJTI", j.err))
               ELSE /\ claims' = ApplyDefaults(claims, t1, t2, j.jti)
                    /\ jtis' = IF needJti THEN Append(jtis, j.jti) ELSE jtis
                    /\ pc' = "ct_key"
                    /\ ret' = ret
    /\ UNCHANGED << entry, world, config, privateKey, tokenString, resolved,
                    verifiedToken, out, io, calls >>

CreateTokenLoadKey ==
    /\ pc = "ct_key"
    /\ io' = Append(io, "os.ReadFile(PrivateKeyFilePath)")
    /\ IF ~world.keyFile.readable THEN
            /\ Returns(EmptyTokenString, Err("createToken:ReadFile", "open: no such file or directory"))
            /\ privateKey' = privateKey
       ELSE IF ~world.keyFile.pem THEN
            /\ Returns(EmptyTokenString, Err("createToken:ParseRSAPrivateKeyFromPEM",
                                             "invalid key: key must be a PEM encoded PKCS1 or PKCS8 key"))
            /\ privateKey' = privateKey
       ELSE /\ privateKey' = [nil |-> FALSE, n |-> world.keyFile.n, weak |-> world.keyFile.weak]
            /\ pc' = "ct_sign"
            /\ ret' = ret
    /\ UNCHANGED << entry, world, config, claims, now, tokenString, resolved,
                    verifiedToken, out, stages, calls, jtis >>

CreateTokenSign ==
    /\ pc = "ct_sign"
    /\ LET signed == SignedString(NewHeader(config.kid), claims, privateKey)
       IN IF signed.err # "" THEN
               /\ Returns(EmptyTokenString, Err("createToken:SignedString", signed.err))
               /\ tokenString' = tokenString
          ELSE /\ tokenString' = signed.str
               /\ pc' = "ct_jwk"
               /\ ret' = ret
    /\ UNCHANGED << entry, world, config, claims, now, privateKey, resolved,
                    verifiedToken, out, io, stages, calls, jtis >>

CreateTokenResolveKey ==
    /\ pc = "ct_jwk"
    /\ LET r == getJwkSet(GetJWKSetParams(config), world)
       IN /\ resolved' = r
          /\ io' = io \o r.io
          /\ out' = out \o r.out
          /\ stages' = Append(stages, "ResolveVerificationKey")
          /\ IF r.err # "" THEN Returns(EmptyTokenString, Err("getJwkSet", r.err))
             ELSE pc' = "ct_verify" /\ ret' = ret
    /\ UNCHANGED << entry, world, config, claims, now, privateKey, tokenString,
                    verifiedToken, calls, jtis >>

CreateTokenVerifyUnchecked ==
    /\ pc = "ct_verify"
    /\ \E d \in 0 .. MaxElapsed :
         /\ now' = now + d
         /\ verifiedToken' = verifyToken(tokenString, publicKey, now').token
         /\ stages' = Append(stages, "Verify")
         /\ pc' = "ct_debug" /\ ret' = ret
    /\ UNCHANGED << entry, world, config, claims, privateKey, tokenString, resolved,
                    out, io, calls, jtis >>

CreateTokenVerify ==
    /\ pc = "ct_verify"
    /\ \E d \in 0 .. MaxElapsed :
         LET r == verifyToken(tokenString, publicKey, now + d)
         IN /\ now' = now + d
            /\ verifiedToken' = r.token
            /\ stages' = Append(stages, "Verify")
            /\ IF r.err # "" THEN Returns(EmptyTokenString, Err("verifyToken", r.err))
               ELSE pc' = "ct_debug" /\ ret' = ret
    /\ UNCHANGED << entry, world, config, claims, privateKey, tokenString, resolved,
                    out, io, calls, jtis >>

CreateTokenDoneMarshalFails ==
    /\ pc = "ct_debug"
    /\ out' = out
    /\ IF config.debug
       THEN Returns(EmptyTokenString, Err("MarshalIndent", "json: unsupported type"))
       ELSE Returns(tokenString, NoErr)
    /\ UNCHANGED << entry, world, config, claims, now, privateKey, tokenString, resolved,
                    verifiedToken, io, stages, calls, jtis >>

CreateTokenDone ==
    /\ pc = "ct_debug"
    /\ out' = IF config.debug THEN Append(out, "DEBUG VERIFIED TOKEN") ELSE out
    /\ Returns(tokenString, NoErr)
    /\ UNCHANGED << entry, world, config, claims, now, privateKey, tokenString, resolved,
                    verifiedToken, io, stages, calls, jtis >>

createToken ==
    \/ CreateTokenDefaults
    \/ CreateTokenLoadKey
    \/ CreateTokenSign
    \/ CreateTokenResolveKey
    \/ CreateTokenVerify
    \/ CreateTokenDone

(* The tool is run again: a new process, the same files, a later clock. *)
Invoke ==
    /\ entry = "createToken"
    /\ pc = "ct_ret"
    /\ calls < MaxCalls
    /\ calls' = calls + 1
    /\ pc' = "ct_defaults"
    /\ claims' = config.claims
    /\ privateKey' = NoPrivateKey
    /\ tokenString' = EmptyTokenString
    /\ resolved' = NoResolve
    /\ verifiedToken' = NilToken
    /\ ret' = [tok |-> EmptyTokenString, err |-> NoErr]
    /\ out' = << >>
    /\ io' = << >>
    /\ stages' = << >>
    /\ UNCHANGED << entry, world, config, now, jtis >>

(***************************************************************************)
(* main.go main, lines 283-301.                                            *)
(***************************************************************************)
MainCheckConfig ==
    /\ pc = "main"
    /\ LET r == checkConfig(world.configFile)
       IN /\ config' = r.config
          /\ out' = IF r.err # "" THEN Append(out, r.err) ELSE out
          /\ ret' = [ret EXCEPT !.err = IF r.err # "" THEN Err("checkConfig", r.err) ELSE NoErr]
    /\ io' = Append(io, "os.ReadFile(configFile)")
    /\ stages' = Append(stages, "ValidateConfig")
    /\ pc' = "main_call"
    /\ UNCHANGED << entry, world, claims, now, privateKey, tokenString, resolved,
                    verifiedToken, calls, jtis >>

(* Lines 288-295: the arguments of createToken are read through config. *)
MainCallCreateToken ==
    /\ pc = "main_call"
    /\ IF config.nil
       THEN pc' = "panic" /\ claims' = claims /\ calls' = calls
       ELSE pc' = "ct_defaults" /\ claims' = config.claims /\ calls' = calls + 1
    /\ UNCHANGED << entry, world, config, now, privateKey, tokenString, resolved,
                    verifiedToken, ret, out, io, stages, jtis >>

MainPrint ==
    /\ entry = "main"
    /\ pc = "ct_ret"
    /\ out' = Append(out, IF ret.err # NoErr THEN ret.err.why ELSE "ACCESS TOKEN")
    /\ pc' = "exit"
    /\ UNCHANGED << entry, world, config, claims, now, privateKey, tokenString, resolved,
                    verifiedToken, ret, io, stages, calls, jtis >>

(***************************************************************************)
(* README.md handleCustomToken, lines 626-645.                             *)
(***************************************************************************)
HandleCustomTokenCheck ==
    /\ pc = "hct"
    /\ stages' = Append(stages, "ValidateConfig")
    /\ IF checkCustomConfig(config) # ""
       THEN /\ ret' = [tok |-> EmptyTokenString,
                       err |-> Err("checkCustomConfig", checkCustomConfig(config))]
            /\ pc' = "exit"
            /\ claims' = claims /\ calls' = calls
       ELSE /\ pc' = "ct_defaults"
            /\ claims' = config.claims /\ calls' = calls + 1
            /\ ret' = ret
    /\ UNCHANGED << entry, world, config, now, privateKey, tokenString, resolved,
                    verifiedToken, out, io, jtis >>

HandleCustomTokenReturn ==
    /\ entry = "handleCustomToken"
    /\ pc = "ct_ret"
    /\ pc' = "exit"
    /\ UNCHANGED << entry, world, config, claims, now, privateKey, tokenString, resolved,
                    verifiedToken, ret, out, io, stages, calls, jtis >>

(***************************************************************************)
(* getJwkSet and verifyToken called on their own.                          *)
(***************************************************************************)
GetJwkSetCall ==
    /\ pc = "gjs"
    /\ LET r == getJwkSet(GetJWKSetParams(config), world)
       IN /\ resolved' = r
          /\ io' = io \o r.io
          /\ out' = out \o r.out
          /\ ret' = [ret EXCEPT !.err = IF r.err # "" THEN Err("getJwkSet", r.err) ELSE NoErr]
    /\ pc' = "exit"
    /\ UNCHANGED << entry, world, config, claims, now, privateKey, tokenString,
                    verifiedToken, stages, calls, jtis >>

VerifyTokenCall ==
    /\ pc = "vt"
    /\ \E d \in 0 .. MaxElapsed :
         LET r == verifyToken(tokenString, publicKey, now + d)
         IN /\ now' = now + d
            /\ verifiedToken' = r.token
            /\ ret' = [ret EXCEPT !.err = IF r.err # "" THEN Err("verifyToken", r.err) ELSE NoErr]
    /\ pc' = "exit"
    /\ UNCHANGED << entry, world, config, claims, privateKey, tokenString, resolved,
                    out, io, stages, calls, jtis >>

(***************************************************************************)
(* Initial states: the inputs and the world each specification ranges      *)
(* over.                                                                   *)
(***************************************************************************)
StartPc(e) ==
    CASE e = "main" -> "main"
      [] e = "handleCustomToken" -> "hct"
      [] e = "createToken" -> "ct_defaults"
      [] e = "getJwkSet" -> "gjs"
      [] OTHER -> "vt"

InitState(e, cfg, w, tok, res) ==
    /\ entry = e
    /\ pc = StartPc(e)
    /\ world = w
    /\ config = IF e = "main" THEN NilConfig ELSE cfg
    /\ claims = IF e = "createToken" THEN cfg.claims ELSE NoClaims
    /\ now = Now0
    /\ privateKey = NoPrivateKey
    /\ tokenString = tok
    /\ resolved = res
    /\ verifiedToken = NilToken
    /\ ret = [tok |-> EmptyTokenString, err |-> NoErr]
    /\ out = << >>
    /\ io = << >>
    /\ stages = << >>
    /\ calls = IF e = "createToken" THEN 1 ELSE 0
    /\ jtis = << >>

BaseClaims ==
    [k \in ClaimNames |-> IF k \in {"iss", "aud", "sub", "client_id", "scope"}
                          THEN Str(StrX) ELSE Absent]

WkSet == PStr("https://issuer.test/.well-known/jwks.json")
PkSet == PStr("private_key.pem")

KeyFiles ==
    {KeyFile(FALSE, FALSE, 0, FALSE), KeyFile(TRUE, FALSE, 0, FALSE), KeyFile(TRUE, TRUE, 1, TRUE)}
    \cup {KeyFile(TRUE, TRUE, n, FALSE) : n \in KeyPairs}

JWKs == {JWK(kid, "RSA", n) : kid \in {Kid1, Kid2}, n \in KeyPairs} \cup {JWK(Kid2, "EC", 1)}

RECURSIVE KeyLists(_)
KeyLists(len) ==
    IF len = 0 THEN {<< >>}
    ELSE KeyLists(len - 1) \cup {Append(l, k) : l \in {x \in KeyLists(len - 1) : Len(x) = len - 1}, k \in JWKs}

AllDocs == {Doc("invalid", << >>), Doc("other", << >>)} \cup {Doc("jwks", l) : l \in KeyLists(MaxKeys)}

SomeDocs ==
    {Doc("invalid", << >>), Doc("jwks", << >>),
     Doc("jwks", << JWK(Kid1, "RSA", 1) >>),
     Doc("jwks", << JWK(Kid1, "RSA", 2) >>),
     Doc("jwks", << JWK(Kid2, "RSA", 2), JWK(Kid1, "RSA", 1) >>),
     Doc("jwks", << JWK(Kid2, "EC", 1), JWK(Kid1, "RSA", 1) >>)}

Endpoints(doc) ==
    {Endpoint(FALSE, 0, FALSE, doc), Endpoint(TRUE, 200, TRUE, doc),
     Endpoint(TRUE, 404, TRUE, doc), Endpoint(TRUE, 200, FALSE, doc)}

NoConfigFile == ConfigFile(FALSE, FALSE, NilConfig)
GoodKeyFile == KeyFile(TRUE, TRUE, 1, FALSE)
GoodDoc == Doc("jwks", << JWK(Kid1, "RSA", 1) >>)

Kids == {NilPtr, Ptr(Kid1), Ptr(Kid2)}

(***************************************************************************)
(* Spec: one run of the tool, from main (main.go) or from                  *)
(* handleCustomToken (README.md), over configurations and worlds.          *)
(***************************************************************************)
RunClaims ==
    {BaseClaims,
     [BaseClaims EXCEPT !["iss"] = Absent],
     [BaseClaims EXCEPT !["client_id"] = Absent, !["azp"] = Str(StrX)],
     [BaseClaims EXCEPT !["exp"] = F64(Now0 - 1)]}

RunConfigs(e) ==
    {Config(c, kid, wk, pk, jf, dbg) :
        c \in RunClaims, kid \in {NilPtr, Ptr(Kid1)}, wk \in {NilStr, WkSet},
        pk \in IF e = "main" THEN {PkSet} ELSE {NilStr, PkSet},
        jf \in {"", "jwks.json"}, dbg \in BOOLEAN}

ConfigFiles(cfg) ==
    {ConfigFile(FALSE, FALSE, NilConfig), ConfigFile(TRUE, FALSE, NilConfig), ConfigFile(TRUE, TRUE, cfg)}

JWKSources(doc) ==
    {<< JWKFile(TRUE, doc), ep >> : ep \in Endpoints(doc)}
    \cup {<< JWKFile(FALSE, doc), Endpoint(TRUE, 200, TRUE, doc) >>}

Init ==
    \E e \in {"main", "handleCustomToken"} :
      \E cfg \in RunConfigs(e), kf \in KeyFiles, doc \in SomeDocs :
        \E cf \in IF e = "main" THEN ConfigFiles(cfg) ELSE {NoConfigFile}, src \in JWKSources(doc) :
          InitState(e, cfg, World(cf, kf, src[1], src[2]), EmptyTokenString, NoResolve)

Next ==
    \/ MainCheckConfig
    \/ MainCallCreateToken
    \/ MainPrint
    \/ HandleCustomTokenCheck
    \/ HandleCustomTokenReturn
    \/ createToken

Spec == Init /\ [][Next]_vars

(***************************************************************************)
(* SpecConfig: config validation alone, over every combination of the      *)
(* required fields being absent, null or set.                              *)
(***************************************************************************)
FieldInputs == {Absent, NilVal, Str(StrX)}

ConfigClaims ==
    {[k \in ClaimNames |->
        CASE k = "iss" -> iss [] k = "aud" -> aud [] k = "sub" -> sub
          [] k = "client_id" -> cid [] k = "azp" -> azp [] OTHER -> Absent] :
        iss \in FieldInputs, aud \in FieldInputs, sub \in FieldInputs,
        cid \in FieldInputs, azp \in FieldInputs}

InitConfig ==
    \E e \in {"main", "handleCustomToken"} :
      \E c \in ConfigClaims, wk \in {NilStr, WkSet}, jf \in {"", "jwks.json"},
         pk \in IF e = "main" THEN {PkSet} ELSE {NilStr, PkSet} :
        LET cfg == Config(c, NilPtr, wk, pk, jf, FALSE)
        IN \E cf \in IF e = "main" THEN ConfigFiles(cfg) ELSE {NoConfigFile} :
             InitState(e, cfg,
                       World(cf, GoodKeyFile, JWKFile(TRUE, GoodDoc), Endpoint(TRUE, 200, TRUE, GoodDoc)),
                       EmptyTokenString, NoResolve)

NextConfig ==
    \/ MainCheckConfig
    \/ HandleCustomTokenCheck

SpecConfig == InitConfig /\ [][NextConfig]_vars

(***************************************************************************)
(* SpecSign: createToken over claim sets in which exp, iat and jti are     *)
(* absent, null or pre-set, run up to MaxCalls times.                      *)
(***************************************************************************)
ExpInputs == {Absent, NilVal, F64(0), F64(Now0 - 1), F64(Now0 + 1), Str(StrX)}
IatInputs == {Absent, NilVal, F64(Now0 - 5)}
JtiInputs == {Absent, NilVal, Str(StrX)}
NbfInputs == {Absent, F64(Now0 + 2)}

InitSign ==
    \E e \in ExpInputs, i \in IatInputs, j \in JtiInputs,
       kf \in {GoodKeyFile, KeyFile(FALSE, FALSE, 0, FALSE)} :
      InitState("createToken",
                Config([BaseClaims EXCEPT !["exp"] = e, !["iat"] = i, !["jti"] = j],
                       Ptr(Kid1), WkSet, PkSet, "", FALSE),
                World(NoConfigFile, kf, JWKFile(TRUE, GoodDoc), Endpoint(TRUE, 200, TRUE, GoodDoc)),
                EmptyTokenString, NoResolve)

NextSign ==
    \/ createToken
    \/ Invoke

SpecSign == InitSign /\ [][NextSign]_vars

(***************************************************************************)
(* SpecRound: createToken once, over key files, JWK documents, key IDs and *)
(* exp/nbf values: signing, key resolution and self-verification.          *)
(***************************************************************************)
InitRound ==
    \E e \in ExpInputs, n \in NbfInputs, i \in {Absent, F64(Now0 - 5)}, kid \in Kids,
       kf \in KeyFiles, doc \in SomeDocs, up \in BOOLEAN, dbg \in BOOLEAN :
      InitState("createToken",
                Config([BaseClaims EXCEPT !["exp"] = e, !["nbf"] = n, !["iat"] = i],
                       kid, WkSet, PkSet, "", dbg),
                World(NoConfigFile, kf, JWKFile(TRUE, doc), Endpoint(up, 200, TRUE, doc)),
                EmptyTokenString, NoResolve)

SpecRound == InitRound /\ [][createToken]_vars

(***************************************************************************)
(* SpecJwk: getJwkSet on its own, over every JWK document of up to MaxKeys *)
(* keys, requested key IDs and sources.                                    *)
(***************************************************************************)
InitJwk ==
    \E kid \in Kids, jf \in {"", "jwks.json"}, dbg \in BOOLEAN, doc \in AllDocs :
      \E src \in JWKSources(doc) :
        InitState("getJwkSet", Config(BaseClaims, kid, WkSet, PkSet, jf, dbg),
                  World(NoConfigFile, GoodKeyFile, src[1], src[2]),
                  EmptyTokenString, NoResolve)

NextJwk == GetJwkSetCall

SpecJwk == InitJwk /\ [][NextJwk]_vars

(***************************************************************************)
(* SpecVerify: verifyToken on its own, over token strings that were not    *)
(* made by createToken: any declared algorithm, any signature segment.     *)
(***************************************************************************)
Payloads == {MarshalClaims(BaseClaims), MarshalClaims([BaseClaims EXCEPT !["exp"] = F64(Now0 - 1)])}

Signatures(h, p) ==
    {NoSig, SignPKCS1v15(1, "SHA256", SigningString(h, NoClaims))}
    \cup {SignPKCS1v15(n, HashOf(h.alg), SigningString(h, p)) : n \in KeyPairs}
    \cup {SignPSS(n, HashOf(h.alg), SigningString(h, p)) : n \in KeyPairs}
    \cup {HMACSum(Bytes(n), HashOf(h.alg), SigningString(h, p)) : n \in KeyPairs}

PublicKeys ==
    {NotPEM, EncodeToMemory("PUBLIC KEY", MarshalPKCS1PublicKey(1)),
     EncodeToMemory("PUBLIC KEY", [enc |-> "PKIX", kty |-> "RSA", n |-> 1]),
     EncodeToMemory("PUBLIC KEY", [enc |-> "PKIX", kty |-> "EC", n |-> 1])}

InitVerify ==
    \E alg \in Algs, p \in Payloads, parts \in {2, 3}, pem \in PublicKeys :
      \E sig \in Signatures(HeaderJSON(alg, FALSE, EmptyStr), p) :
        InitState("verifyToken", Config(BaseClaims, NilPtr, WkSet, PkSet, "", FALSE),
                  World(NoConfigFile, GoodKeyFile, JWKFile(TRUE, GoodDoc), Endpoint(TRUE, 200, TRUE, GoodDoc)),
                  [TokenString(HeaderJSON(alg, FALSE, EmptyStr), p, sig) EXCEPT !.parts = parts],
                  [NoResolve EXCEPT !.pem = pem])

NextVerify == VerifyTokenCall

SpecVerify == InitVerify /\ [][NextVerify]_vars

(***************************************************************************)
(* Properties.                                                             *)
(***************************************************************************)
Returned == pc = "ct_ret"
Signed == tokenString # EmptyTokenString
Defaulted == {"exp", "iat", "jti"}

\* C1: createToken returns a token string only when verifyToken succeeded on
\* that same token with the key getJwkSet resolved; whenever signing succeeded
\* but key resolution or verification failed, it returns the empty string and
\* an error, never the signed token.
C1_ReturnsOnlyVerifiedToken ==
    Returned =>
      /\ ret.tok # EmptyTokenString =>
            /\ ret.err = NoErr
            /\ ret.tok = tokenString
            /\ resolved = getJwkSet(GetJWKSetParams(config), world)
            /\ resolved.err = ""
            /\ verifyToken(ret.tok, publicKey, now).err = ""
            /\ ~verifiedToken.nil /\ verifiedToken.valid
      /\ (Signed /\ (resolved.err # "" \/ verifyToken(tokenString, publicKey, now).err # "")) =>
            /\ ret.tok = EmptyTokenString
            /\ ret.err.at \in {"getJwkSet", "verifyToken"}

C1_Witness ==
    /\ Returned /\ Signed
    /\ resolved.err = ""
    /\ ret = [tok |-> EmptyTokenString, err |-> Err("verifyToken", "signature is invalid")]

SameJSON(decoded, signed) == \A k \in ClaimNames : Marshal(decoded[k]) = Marshal(signed[k])

(* The dates of the signed claims as the verifier reads them at time t. *)
IsNumber(v) == v.t \in {"int64", "float64"}
ExpFresh(c, t) == IsNumber(c["exp"]) /\ (c["exp"].n = 0 \/ t < c["exp"].n)
NbfReached(c, t) == ~Present(c["nbf"]) \/ (IsNumber(c["nbf"]) /\ (c["nbf"].n = 0 \/ t >= c["nbf"].n))

\* C2 as stated: for every claim set, whenever the key resolved from the JWK
\* set is the matching public half, the signed token verifies and decodes to
\* the signed claims.
C2_RoundTripAsStated ==
    (Returned /\ Signed /\ resolved.err = "" /\ resolved.key.n = privateKey.n) =>
        /\ ret.err = NoErr
        /\ SameJSON(verifiedToken.claims, claims)

\* C2 (amended): when the key getJwkSet selects is the matching public half,
\* the signed exp is a number that is 0 or later than the time of
\* verification, and a pre-set nbf is a number that is 0 or not later than it,
\* the signed token verifies and its decoded claims equal, as JSON values, the
\* signed claims (the input claims plus the defaulted exp, iat, jti).
C2_RoundTrip ==
    (/\ Returned /\ Signed
     /\ resolved.err = ""
     /\ resolved.key.n = privateKey.n
     /\ ExpFresh(claims, now) /\ NbfReached(claims, now)) =>
        /\ ret = [tok |-> tokenString, err |-> NoErr]
        /\ ~verifiedToken.nil /\ verifiedToken.valid
        /\ verifiedToken.header = tokenString.header
        /\ SameJSON(verifiedToken.claims, claims)

C2_Witness ==
    /\ Returned /\ ret.err = NoErr /\ ret.tok = tokenString /\ Signed
    /\ config.kid = Ptr(Kid1)
    /\ world.endpoint.doc = Doc("jwks", << JWK(Kid2, "RSA", 2), JWK(Kid1, "RSA", 1) >>)
    /\ privateKey.n = 1
    /\ ~Present(config.claims["exp"])
    /\ verifiedToken.claims["exp"] = F64(claims["exp"].n)
    /\ claims["exp"].t = "int64"

\* C3: verifyToken rejects every token whose header declares an algorithm
\* that is not an RSA signing method (none, HMAC, ...), whatever the signature
\* segment holds, and returns no decoded token for it.
C3_AlgorithmConfusion ==
    (pc = "exit" /\ MethodOf(tokenString.header.alg) # "*SigningMethodRSA") =>
        /\ ret.err.at = "verifyToken"
        /\ verifiedToken = NilToken

C3_Witness ==
    /\ pc = "exit"
    /\ tokenString.parts = 3
    /\ tokenString.header.alg = "HS256"
    /\ publicKey = EncodeToMemory("PUBLIC KEY", MarshalPKCS1PublicKey(1))
    /\ tokenString.sig = HMACSum(Bytes(1), "SHA256",
                                 SigningString(tokenString.header, tokenString.payload))
    /\ ret.err = Err("verifyToken", "error while executing keyfunc")
    /\ verifiedToken.nil

DefaultsApplied == pc # "ct_defaults"

\* C4 as stated: every one of exp, iat, jti that is present in the input keeps
\* its input value, every other input claim is unchanged, and only absent ones
\* among exp, iat, jti are added.
C4_PresentKeptAsStated ==
    DefaultsApplied =>
        \A k \in ClaimNames :
            /\ Present(config.claims[k]) => claims[k] = config.claims[k]
            /\ claims[k] # config.claims[k] => (k \in Defaulted /\ ~Present(config.claims[k]))

\* C4 (amended): every one of exp, iat, jti that the input holds with a
\* non-null value keeps exactly that value, every other input claim is
\* unchanged, and only those among exp, iat, jti that are absent or null in the
\* input are set.
C4_PresentKept ==
    DefaultsApplied =>
        \A k \in ClaimNames :
            /\ ~IsNil(config.claims[k]) => claims[k] = config.claims[k]
            /\ claims[k] # config.claims[k] => (k \in Defaulted /\ IsNil(config.claims[k]))

C4_Witness ==
    /\ Returned /\ ret.err = NoErr
    /\ config.claims["exp"] = F64(Now0 + 1) /\ claims["exp"] = F64(Now0 + 1)
    /\ config.claims["jti"] = Str(StrX) /\ claims["jti"] = Str(StrX)
    /\ ~Present(config.claims["iat"]) /\ claims["iat"].t = "int64"

AllMissing == \A k \in Defaulted : ~Present(config.claims[k])
DefaultsSet == DefaultsApplied /\ ret.err.at # "createToken:generateJTI"
Distinct(seq) == \A a, b \in 1 .. Len(seq) : a # b => seq[a] # seq[b]

\* C5 as stated: for a claim set missing exp, iat and jti, exp - iat is 24
\* hours, exp > iat, and jti is non-empty and differs between repeated calls.
C5_DefaultsAsStated ==
    (AllMissing /\ DefaultsSet) =>
        /\ claims["exp"].n - claims["iat"].n = Day
        /\ claims["exp"].n > claims["iat"].n
        /\ Len(claims["jti"].s) > 0
        /\ Distinct(jtis)

\* C5 (amended): for a claim set missing exp, iat and jti, exp is the first
\* clock read plus 24 hours and iat the second, later clock read, both Unix
\* seconds, so exp - iat is 24 hours less the whole seconds that passed
\* between the two reads (at most 24 hours); jti is the non-empty,
\* 24-character base64url string of 16 random bytes (that two calls draw
\* different bytes is not guaranteed).
C5_Defaults ==
    (AllMissing /\ DefaultsSet) =>
        /\ claims["exp"].t = "int64" /\ claims["iat"].t = "int64"
        /\ claims["exp"].n - Day >= Now0
        /\ claims["exp"].n - Day <= claims["iat"].n
        /\ claims["iat"].n <= now
        /\ claims["exp"].n - claims["iat"].n <= Day
        /\ claims["jti"].t = "string"
        /\ Len(claims["jti"].s) = 4 * ((JTIBytes + 2) \div 3)
        /\ claims["jti"].s \in {generateJTI(r).jti : r \in RandOutcomes \ {0}}

C5_Witness ==
    /\ AllMissing /\ Returned /\ ret.err = NoErr
    /\ claims["exp"].n - claims["iat"].n = Day - 1
    /\ Len(claims["jti"].s) = 24
    /\ calls = 2

(* The document getJwkSet is given, when its source can be read. *)
JWKFetched ==
    IF config.jwkFile # "" THEN world.jwkFile.readable
    ELSE world.endpoint.up /\ world.endpoint.bodyOk
JWKDoc == IF config.jwkFile # "" THEN world.jwkFile.doc ELSE world.endpoint.doc
Matches(keys, kid) == {i \in 1 .. Len(keys) : keys[i].kid = kid}
Min(S) == CHOOSE x \in S : \A y \in S : x <= y
KidWarning == "Could not find key with kid"
Printed(msg) == \E i \in 1 .. Len(out) : out[i] = msg

\* C6: over a non-empty JWK set, a requested key ID that some key carries
\* selects that key (the first that carries it); a requested key ID that no
\* key carries prints a warning and selects the first key, and that miss is no
\* error; no requested key ID selects the first key.  The selected key, when
\* it is an RSA key, is the one returned as PEM.
C6_KeySelection ==
    (pc = "exit" /\ JWKFetched /\ JWKDoc.json = "jwks" /\ Len(JWKDoc.keys) > 0) =>
        LET keys == JWKDoc.keys
            hit == ~config.kid.nil /\ Matches(keys, config.kid.s) # {}
            miss == ~config.kid.nil /\ Matches(keys, config.kid.s) = {}
            want == IF hit THEN keys[Min(Matches(keys, config.kid.s))] ELSE keys[1]
        IN /\ resolved.warned = miss
           /\ Printed(KidWarning) <=> miss
           /\ IF want.kty = "RSA"
              THEN /\ ret.err = NoErr
                   /\ resolved.key = want
                   /\ publicKey = EncodeToMemory("PUBLIC KEY", MarshalPKCS1PublicKey(want.n))
              ELSE ret.err = Err("getJwkSet", "failed to assign key to *rsa.PublicKey")

C6_Witness ==
    /\ pc = "exit"
    /\ JWKFetched
    /\ JWKDoc = Doc("jwks", << JWK(Kid1, "RSA", 1), JWK(Kid2, "RSA", 2) >>)
    /\ config.kid = Ptr(Kid2)
    /\ resolved.key = JWK(Kid2, "RSA", 2)
    /\ ~resolved.warned
    /\ ret.err = NoErr

(* Config validation: what was validated, and how it ended. *)
Validated == Len(stages) > 0 /\ stages[1] = "ValidateConfig"
GivenConfig == IF entry = "main" THEN world.configFile.content ELSE config
ConfigParsed == entry = "main" => (world.configFile.readable /\ world.configFile.json)
Accepted == ret.err = NoErr
Acceptable(c) ==
    /\ ~IsNil(c.claims["iss"]) /\ ~IsNil(c.claims["aud"]) /\ ~IsNil(c.claims["sub"])
    /\ (~IsNil(c.claims["client_id"]) \/ ~IsNil(c.claims["azp"]))
    /\ (~c.wk.nil \/ c.jwkFile # "")
    /\ ~c.pk.nil

\* C7: config validation accepts a configuration if and only if iss, aud and
\* sub are present, client_id or azp is present, a well-known endpoint or a
\* local JWK file is configured, and a private-key path is configured.
C7_AcceptsIffComplete ==
    (Validated /\ ConfigParsed) => (Accepted <=> Acceptable(GivenConfig))

MissingFields(c) ==
    {k \in {"iss", "aud", "sub", "client_id"} : IsNil(c.claims[k])}
    \cup (IF c.wk.nil THEN {"well_known_endpoint"} ELSE {})
    \cup (IF c.pk.nil THEN {"private_key_file_path"} ELSE {})

NamedField(msg) ==
    CASE msg = "iss claim is required in your config json file" -> "iss"
      [] msg = "aud claim is required in your config json file" -> "aud"
      [] msg = "sub claim is required in your config json file" -> "sub"
      [] msg = "client_id claim is required in your config json file" -> "client_id"
      [] msg = "wk_path claim is required in your config json file" -> "well_known_endpoint"
      [] OTHER -> ""

KeyOrNetworkIO ==
    \E i \in 1 .. Len(io) : io[i] \in {"os.ReadFile(PrivateKeyFilePath)", "os.ReadFile(JWKFile)", "http.Get"}

\* C8: whenever config validation rejects a configuration, the error names a
\* field that is actually missing, and no key file was read and no network
\* request made.
C8_ErrorNamesMissingField ==
    (Validated /\ ConfigParsed /\ ~Accepted) =>
        /\ NamedField(ret.err.why) \in MissingFields(GivenConfig)
        /\ ~KeyOrNetworkIO

StageOrder == << "ValidateConfig", "Sign", "ResolveVerificationKey", "Verify" >>
StageOf(at) ==
    CASE at \in {"checkConfig", "checkCustomConfig"} -> "ValidateConfig"
      [] at = "getJwkSet" -> "ResolveVerificationKey"
      [] at = "verifyToken" -> "Verify"
      [] OTHER -> "Sign"

\* C9: the stages start in the order ValidateConfig, Sign,
\* ResolveVerificationKey, Verify, each at most once; once a stage has failed
\* that stage is the last one started, and the invocation ends by reporting
\* that error: it never goes on past a failed stage.
C9_FailsFast ==
    /\ stages = SubSeq(StageOrder, 1, Len(stages))
    /\ ret.err # NoErr => stages[Len(stages)] = StageOf(ret.err.at)
    /\ pc # "panic"
    /\ (pc = "exit" /\ ret.err # NoErr /\ entry = "main") => out[Len(out)] = ret.err.why

VerifyReached == Returned /\ Len(stages) > 0 /\ stages[Len(stages)] = "Verify"
CorrectlySigned == Signed /\ resolved.err = "" /\ resolved.key.n = privateKey.n

\* C10 as stated: for a correctly signed RS256 token, verifyToken and so
\* createToken succeed whatever the value of exp.
C10_IgnoresExpAsStated ==
    (VerifyReached /\ CorrectlySigned /\ ~Present(claims["nbf"])) => ret.err = NoErr

\* C10 (amended): self-verification checks the signature, the algorithm and
\* the exp claim: for a correctly signed RS256 token without nbf, verifyToken
\* and so createToken succeed exactly when exp is a number that is 0 or later
\* than the time of verification; a pre-set exp in the past fails with
\* "token is expired".  iat is not checked.
C10_ChecksExp ==
    (VerifyReached /\ CorrectlySigned /\ ~Present(claims["nbf"])) =>
        /\ ret.err = NoErr <=> ExpFresh(claims, now)
        /\ (IsNumber(claims["exp"]) /\ ~ExpFresh(claims, now)) =>
               ret = [tok |-> EmptyTokenString, err |-> Err("verifyToken", "token is expired")]

C10_Witness ==
    /\ VerifyReached /\ CorrectlySigned
    /\ config.claims["exp"] = F64(Now0 - 1)
    /\ config.claims["iat"] = F64(Now0 - 5)
    /\ ~Present(claims["nbf"])
    /\ ret = [tok |-> EmptyTokenString, err |-> Err("verifyToken", "token is expired")]

(***************************************************************************)
(* SpecHeader: createToken once, over the kid header override being        *)
(* absent, the empty string or a key ID, and over key files and documents. *)
(***************************************************************************)
HeaderKids == {NilPtr, Ptr(EmptyStr), Ptr(Kid1), Ptr(Kid2)}

InitHeader ==
    \E kid \in HeaderKids, kf \in KeyFiles, doc \in SomeDocs, dbg \in BOOLEAN :
      InitState("createToken",
                Config(BaseClaims, kid, WkSet, PkSet, "", dbg),
                World(NoConfigFile, kf, JWKFile(TRUE, doc), Endpoint(TRUE, 200, TRUE, doc)),
                EmptyTokenString, NoResolve)

SpecHeader == InitHeader /\ [][createToken]_vars

\* C11: the signed token's header declares RS256, and carries a kid field if
\* and only if the kid override is set and non-empty, in which case the
\* header's kid is that value.
C11_HeaderKid ==
    Signed =>
        /\ tokenString.header.alg = "RS256"
        /\ tokenString.header.hasKid <=> (~config.kid.nil /\ config.kid.s # EmptyStr)
        /\ tokenString.header.hasKid => tokenString.header.kid = config.kid.s

(***************************************************************************)
(* SpecSource: getJwkSet on its own, over a local file and an endpoint     *)
(* that hold different documents, each configured or not, readable or not, *)
(* the endpoint answering with a 2xx or another status.                    *)
(***************************************************************************)
SourceDocs ==
    {Doc("invalid", << >>), Doc("jwks", << JWK(Kid1, "RSA", 1) >>), Doc("jwks", << JWK(Kid2, "RSA", 2) >>)}

InitSource ==
    \E kid \in {NilPtr, Ptr(Kid1)}, wk \in {PStr(""), WkSet}, jf \in {"", "jwks.json"},
       dbg \in BOOLEAN, df \in SourceDocs, de \in SourceDocs, readable \in BOOLEAN :
      \E ep \in Endpoints(de) :
        InitState("getJwkSet", Config(BaseClaims, kid, wk, PkSet, jf, dbg),
                  World(NoConfigFile, GoodKeyFile, JWKFile(readable, df), ep),
                  EmptyTokenString, NoResolve)

SpecSource == InitSource /\ [][GetJwkSetCall]_vars

Did(op) == \E i \in 1 .. Len(io) : io[i] = op

\* C12: when a local JWK file is configured, getJwkSet reads the key set from
\* that file and makes no HTTP request, whether or not an endpoint is
\* configured too; it requests the endpoint only when no local file is
\* configured.
C12_LocalFileFirst ==
    pc = "exit" =>
        IF config.jwkFile # ""
        THEN /\ io = << "os.ReadFile(JWKFile)" >>
             /\ ~Did("http.Get")
             /\ ret.err = NoErr =>
                    /\ world.jwkFile.readable
                    /\ resolved.key \in {world.jwkFile.doc.keys[i] : i \in 1 .. Len(world.jwkFile.doc.keys)}
        ELSE /\ Did("http.Get") /\ ~Did("os.ReadFile(JWKFile)")
             /\ ret.err = NoErr =>
                    resolved.key \in {world.endpoint.doc.keys[i] : i \in 1 .. Len(world.endpoint.doc.keys)}

C12_Witness ==
    /\ pc = "exit"
    /\ config.jwkFile # "" /\ config.wk = WkSet
    /\ world.endpoint = Endpoint(TRUE, 200, TRUE, Doc("jwks", << JWK(Kid2, "RSA", 2) >>))
    /\ world.jwkFile = JWKFile(TRUE, Doc("jwks", << JWK(Kid1, "RSA", 1) >>))
    /\ io = << "os.ReadFile(JWKFile)" >>
    /\ ret.err = NoErr
    /\ resolved.key = JWK(Kid1, "RSA", 1)

(* The configured source cannot be had: file unreadable, request failing,  *)
(* or an answer whose status is not 2xx.                                   *)
SourceUnavailable ==
    IF config.jwkFile # "" THEN ~world.jwkFile.readable
    ELSE \/ config.wk.s = ""
         \/ ~world.endpoint.up
         \/ world.endpoint.status \notin 200 .. 299

SourceErrors == {"open: no such file or directory", "Get: transport error", "unexpected EOF"}

\* C13: getJwkSet fails with a source-unavailable error, without parsing the
\* body or selecting a key, whenever the local file cannot be read, the HTTP
\* request has a transport error, or the endpoint answers with a non-2xx
\* status.
C13_SourceUnavailable ==
    (pc = "exit" /\ SourceUnavailable) =>
        /\ ret.err.at = "getJwkSet"
        /\ ret.err.why \in SourceErrors
        /\ resolved.key = NoJWK
        /\ publicKey = NotPEM
        /\ out = << >>

(* An HTTP response was obtained / its body has been closed. *)
ResponseObtained == Did("response")
BodyClosed == Did("Body.Close")

\* C14: on every exit path of key resolution that obtained an HTTP response,
\* success and error paths alike, the response body has been closed by the
\* time getJwkSet returns.
C14_BodyClosed ==
    (pc = "exit" /\ ResponseObtained) => BodyClosed

(***************************************************************************)
(* SpecDebug: createToken once, with and without Debug, over documents     *)
(* that are not JSON, JSON that is no key set, and key sets.               *)
(***************************************************************************)
DebugDocs == SomeDocs \cup {Doc("other", << >>)}

InitDebug ==
    \E dbg \in BOOLEAN, doc \in DebugDocs, kid \in Kids, jf \in {"", "jwks.json"},
       e \in {Absent, F64(Now0 - 1)}, up \in BOOLEAN,
       kf \in {GoodKeyFile, KeyFile(TRUE, TRUE, NumKeyPairs, FALSE), KeyFile(TRUE, FALSE, 0, FALSE)} :
      InitState("createToken",
                Config([BaseClaims EXCEPT !["exp"] = e], kid, WkSet, PkSet, jf, dbg),
                World(NoConfigFile, kf, JWKFile(TRUE, doc), Endpoint(up, 200, TRUE, doc)),
                EmptyTokenString, NoResolve)

SpecDebug == InitDebug /\ [][createToken]_vars

(* The other run: the same call with Debug flipped, at the same time and   *)
(* with the same jti, from key resolution on (the steps before it do not   *)
(* read Debug).                                                            *)
OtherDebug == [GetJWKSetParams(config) EXCEPT !.Debug = ~config.debug]
OtherResolved == getJwkSet(OtherDebug, world)
OtherVerified == verifyToken(tokenString, OtherResolved.pem, now)
OtherStages ==
    IF OtherResolved.err # "" THEN << "Sign", "ResolveVerificationKey" >>
    ELSE << "Sign", "ResolveVerificationKey", "Verify" >>
OtherReturn ==
    IF OtherResolved.err = "" /\ OtherVerified.err = "" THEN tokenString ELSE EmptyTokenString

====
